---- MODULE Spec2Model ----
(***************************************************************************)
(* The DSRP relay handlers (dsrp-core) as a state machine.                 *)
(*                                                                         *)
(* ServerHandler (server_handler/mod.rs) and ClientHandler                 *)
(* (client_handler/mod.rs) are synchronous, I/O free objects: every public *)
(* method is one atomic action here.  A method's return value depends     *)
(* only on the state it is called in and on its arguments: for a method m  *)
(* the operator m_returns (or the set m_may_return, where the order of a   *)
(* HashSet iteration shows in the result) gives it, and the action m       *)
(* gives the state the call leaves behind.                                 *)
(*                                                                         *)
(* The two handlers share no state; a behaviour drives one instance,       *)
(* selected by `handler`.                                                  *)
(*                                                                         *)
(* Identifiers are Wrapping<u32> counters in the source.  The id space is  *)
(* scaled down to IdModulus values so that wrap-around and probing past    *)
(* live ids happen within the explored behaviours.                         *)
(*                                                                         *)
(* data_structures.rs declares fields that the struct literals of          *)
(* server_handler/mod.rs do not set (socket_has_been_bound,                *)
(* registration_request, owning_client, the addressee of                   *)
(* SendMessageToDsrpClient) and the handler has no socket_binding_*        *)
(* methods.  Those parts are taken from the written specification and are  *)
(* kept in definitions of their own (BindingFields, ConnectionOwner,       *)
(* Addressee, socket_binding_successful, socket_binding_failed).           *)
(***************************************************************************)
EXTENDS Integers, Sequences, FiniteSets, TLC

\* ---------------------------------------------------------------- bounds
IdModulus == 2          \* size of every id space (2^32 in the source)
NumPorts == 2           \* ports a client may ask for
MaxClients == 2         \* clients live at the same time
MaxConnections == 1     \* tcp connections live at the same time
NumRequests == 2        \* request ids a client may put in Register

Ids == 0..(IdModulus - 1)
Ports == 23..(22 + NumPorts)
RequestIds == 25..(24 + NumRequests)
ConnectionType == {"Tcp", "Udp"}
Versions == {"current", "other"}
CURRENT_PROTOCOL_VERSION == "current"

None == -1              \* an absent id / Option::None

VARIABLES
    handler,                  \* "server" or "client": the instance driven
    active_clients,           \* ClientId -> [channels : set of ChannelId]
    active_ports,             \* port -> ChannelId
    active_channels,          \* ChannelId -> ActiveChannel
    active_tcp_connections,   \* ConnectionId -> ActiveTcpConnection
    next_client_id,
    next_channel_id,
    next_connection_id,
    outstanding_requests,     \* client handler: RequestId -> OutstandingRequest
    next_request_id,          \* client handler
    handshake                 \* the handshake being exchanged, its stage and values

server_state == <<active_clients, active_ports, active_channels,
                  active_tcp_connections, next_client_id, next_channel_id,
                  next_connection_id>>
client_state == <<outstanding_requests, next_request_id>>
vars == <<handler, active_clients, active_ports, active_channels,
          active_tcp_connections, next_client_id, next_channel_id,
          next_connection_id, outstanding_requests, next_request_id, handshake>>

\* ------------------------------------------------------- maps (HashMap)
EmptyMap == [x \in {} |-> None]

Insert(m, k, v) == [x \in (DOMAIN m) \cup {k} |-> IF x = k THEN v ELSE m[x]]

Remove(m, k) == [x \in (DOMAIN m) \ {k} |-> m[x]]

RemoveAll(m, ks) == [x \in (DOMAIN m) \ ks |-> m[x]]

\* every order a HashSet iteration may produce
Orders(S) ==
    {s \in [1..Cardinality(S) -> S] : \A i, j \in 1..Cardinality(S) : i # j => s[i] # s[j]}

\* ----------------------------------------------- messages and operations
Message(type, request, channel, connection, cause) ==
    [type |-> type, request |-> request, channel |-> channel,
     connection |-> connection, cause |-> cause]

NoMessage == Message("None", None, None, None, "None")

RegistrationSuccessful(request, created_channel) ==
    Message("RegistrationSuccessful", request, created_channel, None, "None")

RegistrationFailed(request, cause) ==
    Message("RegistrationFailed", request, None, None, cause)

NewIncomingTcpConnection(channel, new_connection) ==
    Message("NewIncomingTcpConnection", None, channel, new_connection, "None")

TcpConnectionClosed(channel, connection) ==
    Message("TcpConnectionClosed", None, channel, connection, "None")

DataReceived(channel, connection) ==
    Message("DataReceived", None, channel, connection, "None")

Operation(type, port, channel, connection, client, message) ==
    [type |-> type, port |-> port, channel |-> channel,
     connection |-> connection, client |-> client, message |-> message]

StartTcpOperations(port, channel) ==
    Operation("StartTcpOperations", port, channel, None, None, NoMessage)

StartUdpOperations(port, channel) ==
    Operation("StartUdpOperations", port, channel, None, None, NoMessage)

StopTcpOperations(port) ==
    Operation("StopTcpOperations", port, None, None, None, NoMessage)

StopUdpOperations(port) ==
    Operation("StopUdpOperations", port, None, None, None, NoMessage)

DisconnectConnection(connection) ==
    Operation("DisconnectConnection", None, None, connection, None, NoMessage)

SendMessageToDsrpClient(client, message) ==
    Operation("SendMessageToDsrpClient", None, None, None, client, message)

NotifyChannelOpened(request, channel) ==
    [type |-> "NotifyChannelOpened", registered_by_request |-> request,
     opened_channel |-> channel]

\* ------------------------------------------------------------ results
Error(kind, client, channel, owning_client, request) ==
    [kind |-> kind, client |-> client, channel |-> channel,
     owning_client |-> owning_client, request |-> request]

NoError == Error("None", None, None, None, None)

\* Ok(id, ops): a successful return; an Option::None or an empty Vec is
\* Ok(None, <<>>)
Ok(id, ops) == [status |-> "Ok", id |-> id, ops |-> ops, error |-> NoError]

Err(error) == [status |-> "Err", id |-> None, ops |-> <<>>, error |-> error]

\* ------------------------------------------------------- id allocation
WrappingAdd1(counter) == (counter + 1) % IdModulus

\* the allocation loop terminates iff some id is not live
CanAllocate(live) == \E i \in Ids : i \notin live

\* (ProbeWithoutSkipping: the candidate is taken without looking it up)
ProbeWithoutSkipping(counter, live) == WrappingAdd1(counter)

\* loop { counter += 1; if live.contains_key(counter) { continue } break }
RECURSIVE Probe(_, _)
Probe(counter, live) ==
    LET candidate == WrappingAdd1(counter)
    IN  IF candidate \in live THEN Probe(candidate, live) ELSE candidate

\* ------------------------------------------------- spec-modelled fields
\* fields of ActiveChannel that Register's struct literal leaves out
BindingFields(request) ==
    [socket_has_been_bound |-> FALSE, registration_request |-> request]

\* field of ActiveTcpConnection that new_channel_tcp_connection leaves out
ConnectionOwner(channel_id) == active_channels[channel_id].owner

\* the `client` of a SendMessageToDsrpClient, which mod.rs leaves out
Addressee(client_id) == client_id


\* ------------------------------------------------------------- new()
\* no handshake is being exchanged
NoHandshake == [stage |-> "none"]

Init ==
    /\ handler \in {"server", "client"}
    /\ active_clients = EmptyMap
    /\ active_ports = EmptyMap
    /\ active_channels = EmptyMap
    /\ active_tcp_connections = EmptyMap
    /\ next_client_id = 0
    /\ next_channel_id = 0
    /\ next_connection_id = 0
    /\ outstanding_requests = EmptyMap
    /\ next_request_id = 0
    /\ handshake = NoHandshake

\* ------------------------------------------------------ ServerHandler
\* add_dsrp_client gets past the version check and its loop terminates
add_dsrp_client_allocates(version) ==
    /\ version = CURRENT_PROTOCOL_VERSION
    /\ CanAllocate(DOMAIN active_clients)

add_dsrp_client_returns(version) ==
    IF version # CURRENT_PROTOCOL_VERSION
    THEN Err(Error("HandshakeFailure", None, None, None, None))
    ELSE Ok(Probe(next_client_id, DOMAIN active_clients), <<>>)

\* (add_dsrp_client_any_version: the client is admitted without comparing
\* the protocol versions)
add_dsrp_client_any_version(version) ==
    /\ handler = "server"
    /\ Cardinality(DOMAIN active_clients) < MaxClients
    /\ CanAllocate(DOMAIN active_clients)
    /\ LET client_id == Probe(next_client_id, DOMAIN active_clients)
       IN  /\ next_client_id' = client_id
           /\ active_clients' = Insert(active_clients, client_id, [channels |-> {}])
    /\ UNCHANGED <<active_ports, active_channels, active_tcp_connections,
                   next_channel_id, next_connection_id>>
    /\ UNCHANGED <<handler, handshake, client_state>>

add_dsrp_client(version) ==
    /\ handler = "server"
    /\ IF version # CURRENT_PROTOCOL_VERSION
       THEN UNCHANGED server_state
       ELSE /\ Cardinality(DOMAIN active_clients) < MaxClients
            /\ CanAllocate(DOMAIN active_clients)
            /\ LET client_id == Probe(next_client_id, DOMAIN active_clients)
               IN  /\ next_client_id' = client_id
                   /\ active_clients' = Insert(active_clients, client_id, [channels |-> {}])
            /\ UNCHANGED <<active_ports, active_channels, active_tcp_connections,
                           next_channel_id, next_connection_id>>
    /\ UNCHANGED <<handler, handshake, client_state>>

\* (StopOperation_for_tcp: the Tcp Stop is pushed whatever the transport of
\* the channel)
StopOperation_for_tcp(active_channel) == StopTcpOperations(active_channel.port)

\* Stop operation matching the transport of a channel
StopOperation(active_channel) ==
    IF active_channel.connection_type = "Tcp"
    THEN StopTcpOperations(active_channel.port)
    ELSE StopUdpOperations(active_channel.port)

Disconnects(order) == [i \in 1..Len(order) |-> DisconnectConnection(order[i])]

\* results of the loop over client.channels: ids that name no live channel
\* are skipped, a live one pushes its Stop and then its disconnects
RECURSIVE RemovalOperations(_, _)
RemovalOperations(channels, connection_order) ==
    IF channels = <<>> THEN <<>>
    ELSE LET channel == Head(channels)
         IN  (IF channel \in DOMAIN active_channels
              THEN <<StopOperation(active_channels[channel])>>
                   \o Disconnects(connection_order[channel])
              ELSE <<>>)
             \o RemovalOperations(Tail(channels), connection_order)

\* (RemovedTcpChannels: only the Tcp channels of the client are torn down)
RemovedTcpChannels(client_id) ==
    {c \in active_clients[client_id].channels \cap DOMAIN active_channels :
        active_channels[c].connection_type = "Tcp"}

\* the channels remove_dsrp_client takes out of active_channels
RemovedChannels(client_id) ==
    active_clients[client_id].channels \cap DOMAIN active_channels

\* one iteration order of the connection set of every removed channel
ConnectionOrders(removed) ==
    {order \in [removed -> UNION {Orders(active_channels[c].tcp_connections) : c \in removed}] :
        \A c \in removed : order[c] \in Orders(active_channels[c].tcp_connections)}

\* (remove_dsrp_client_returning_early: the loop over client.channels ends
\* after its first channel)
remove_dsrp_client_returning_early(client_id) ==
    IF client_id \notin DOMAIN active_clients
    THEN {Ok(None, <<>>)}
    ELSE {Ok(None, RemovalOperations(SubSeq(channel_order, 1, IF channel_order = <<>> THEN 0 ELSE 1),
                                       connection_order)) :
            channel_order \in Orders(active_clients[client_id].channels),
            connection_order \in ConnectionOrders(RemovedChannels(client_id))}

remove_dsrp_client_may_return(client_id) ==
    IF client_id \notin DOMAIN active_clients
    THEN {Ok(None, <<>>)}
    ELSE {Ok(None, RemovalOperations(channel_order, connection_order)) :
            channel_order \in Orders(active_clients[client_id].channels),
            connection_order \in ConnectionOrders(RemovedChannels(client_id))}

remove_dsrp_client(client_id) ==
    /\ handler = "server"
    /\ IF client_id \notin DOMAIN active_clients
       THEN UNCHANGED server_state
       ELSE LET removed == RemovedChannels(client_id)
                connections == UNION {active_channels[c].tcp_connections : c \in removed}
            IN  /\ active_clients' = Remove(active_clients, client_id)
                /\ active_channels' = RemoveAll(active_channels, removed)
                /\ active_ports' = RemoveAll(active_ports, {active_channels[c].port : c \in removed})
                /\ active_tcp_connections' = RemoveAll(active_tcp_connections, connections)
                /\ UNCHANGED <<next_client_id, next_channel_id, next_connection_id>>
    /\ UNCHANGED <<handler, handshake, client_state>>

UnknownClientId(client_id) == Err(Error("UnknownClientId", client_id, None, None, None))

\* (PortIsRegisteredAndBound: a port reserved by a channel that is not
\* bound yet is taken to be free)
PortIsRegisteredAndBound(port) ==
    /\ port \in DOMAIN active_ports
    /\ active_ports[port] \in DOMAIN active_channels
    /\ active_channels[active_ports[port]].socket_has_been_bound

\* Register: the port is already reserved
PortIsRegistered(port) == port \in DOMAIN active_ports

\* Register: the channel record put into active_channels
NewChannel(client_id, request, connection_type, port) ==
    [port |-> port,
     connection_type |-> connection_type,
     owner |-> client_id,
     tcp_connections |-> {},
     socket_has_been_bound |-> BindingFields(request).socket_has_been_bound,
     registration_request |-> BindingFields(request).registration_request]

\* (RegisterOperationsWithoutStart: the Start operation is not pushed)
RegisterOperationsWithoutStart(client_id, request, connection_type, port, channel_id) ==
    <<SendMessageToDsrpClient(Addressee(client_id),
                              RegistrationSuccessful(request, channel_id))>>

\* Register: the vec returned for a port that was free
RegisterOperations(client_id, request, connection_type, port, channel_id) ==
    LET message_to_client ==
            SendMessageToDsrpClient(Addressee(client_id),
                                    RegistrationSuccessful(request, channel_id))
        start_operation ==
            IF connection_type = "Tcp"
            THEN StartTcpOperations(port, channel_id)
            ELSE StartUdpOperations(port, channel_id)
    IN  <<start_operation, message_to_client>>

\* Register: the vec returned for a port that is reserved
PortAlreadyRegisteredOperations(client_id, request) ==
    <<SendMessageToDsrpClient(Addressee(client_id),
                              RegistrationFailed(request, "PortAlreadyRegistered"))>>

\* Register reaches the allocation of a channel id and its loop terminates
HandleRegister_allocates(client_id, port) ==
    /\ client_id \in DOMAIN active_clients
    /\ ~ PortIsRegistered(port)
    /\ CanAllocate(DOMAIN active_channels)

HandleRegister_returns(client_id, request, connection_type, port) ==
    IF client_id \notin DOMAIN active_clients
    THEN UnknownClientId(client_id)
    ELSE IF PortIsRegistered(port)
    THEN Ok(None, PortAlreadyRegisteredOperations(client_id, request))
    ELSE Ok(None, RegisterOperations(client_id, request, connection_type, port,
                                     Probe(next_channel_id, DOMAIN active_channels)))

HandleRegister(client_id, request, connection_type, port) ==
    /\ handler = "server"
    /\ IF client_id \notin DOMAIN active_clients \/ PortIsRegistered(port)
       THEN UNCHANGED server_state
       ELSE /\ CanAllocate(DOMAIN active_channels)
            /\ LET channel_id == Probe(next_channel_id, DOMAIN active_channels)
               IN  /\ next_channel_id' = channel_id
                   /\ active_ports' = Insert(active_ports, port, channel_id)
                   /\ active_channels' =
                        Insert(active_channels, channel_id,
                               NewChannel(client_id, request, connection_type, port))
                   /\ active_clients' =
                        [active_clients EXCEPT ![client_id].channels = @ \cup {channel_id}]
            /\ UNCHANGED <<active_tcp_connections, next_client_id, next_connection_id>>
    /\ UNCHANGED <<handler, handshake, client_state>>

\* (UnregisterErrorWithoutOwnerCheck: the owner of the channel is not compared
\* with the requester)
UnregisterErrorWithoutOwnerCheck(client_id, channel) ==
    IF channel \notin DOMAIN active_channels
    THEN Error("ChannelNotFound", None, channel, None, None)
    ELSE NoError

\* Unregister: the error the validations end in, if any
UnregisterError(client_id, channel) ==
    IF channel \notin DOMAIN active_channels
    THEN Error("ChannelNotFound", None, channel, None, None)
    ELSE IF active_channels[channel].owner # client_id
    THEN Error("ChannelNotOwnedByRequester", client_id, channel,
               active_channels[channel].owner, None)
    ELSE NoError

\* (UnregisterKeepsConnections: the connections of the channel stay in the
\* registry)
UnregisterKeepsConnections(connection_ids) == active_tcp_connections

\* Unregister: what is erased once the validations passed
\* (UnregisterKeepsPort: the port entry is left behind)
UnregisterKeepsPort(port) == active_ports

UnregisterPorts(port) == Remove(active_ports, port)

UnregisterChannels(channel) == Remove(active_channels, channel)

UnregisterConnections(connection_ids) == RemoveAll(active_tcp_connections, connection_ids)

HandleUnregister_may_return(client_id, channel) ==
    IF client_id \notin DOMAIN active_clients
    THEN {UnknownClientId(client_id)}
    ELSE IF UnregisterError(client_id, channel) # NoError
    THEN {Err(UnregisterError(client_id, channel))}
    ELSE {Ok(None, Disconnects(order) \o <<StopOperation(active_channels[channel])>>) :
            order \in Orders(active_channels[channel].tcp_connections)}

HandleUnregister(client_id, channel) ==
    /\ handler = "server"
    /\ IF \/ client_id \notin DOMAIN active_clients
          \/ UnregisterError(client_id, channel) # NoError
       THEN UNCHANGED server_state
       ELSE LET channel_details == active_channels[channel]
            IN  /\ active_tcp_connections' =
                     UnregisterConnections(channel_details.tcp_connections)
                /\ active_ports' = UnregisterPorts(channel_details.port)
                /\ active_channels' = UnregisterChannels(channel)
                /\ UNCHANGED <<active_clients, next_client_id, next_channel_id,
                               next_connection_id>>
    /\ UNCHANGED <<handler, handshake, client_state>>

\* (DisconnectionIsValidWithoutOwnerCheck: the validations without the
\* comparison of the channel's owner with the sender)
DisconnectionIsValidWithoutOwnerCheck(client_id, channel_id, connection_id) ==
    /\ connection_id \in DOMAIN active_tcp_connections
    /\ channel_id \in DOMAIN active_channels
    /\ active_tcp_connections[connection_id].owning_channel = channel_id

\* handle_dsrp_client_disconnection_notification: the validations
DisconnectionIsValid(client_id, channel_id, connection_id) ==
    /\ connection_id \in DOMAIN active_tcp_connections
    /\ channel_id \in DOMAIN active_channels
    /\ ~ (active_tcp_connections[connection_id].owning_channel # channel_id
          \/ active_channels[channel_id].owner # client_id)

\* (HandleTcpConnectionDisconnected_without_client_check: the message is
\* handled without looking the sender up)
HandleTcpConnectionDisconnected_without_client_check(client_id, channel_id, connection_id) ==
    IF ~ DisconnectionIsValid(client_id, channel_id, connection_id)
    THEN Ok(None, <<>>)
    ELSE Ok(None, <<DisconnectConnection(connection_id)>>)

HandleTcpConnectionDisconnected_returns(client_id, channel_id, connection_id) ==
    IF client_id \notin DOMAIN active_clients
    THEN UnknownClientId(client_id)
    ELSE IF ~ DisconnectionIsValid(client_id, channel_id, connection_id)
    THEN Ok(None, <<>>)
    ELSE Ok(None, <<DisconnectConnection(connection_id)>>)

\* (HandleTcpConnectionDisconnected_keeping_connection: the connection is
\* taken out of the channel's set but stays in the registry)
HandleTcpConnectionDisconnected_keeping_connection(client_id, channel_id, connection_id) ==
    /\ handler = "server"
    /\ IF \/ client_id \notin DOMAIN active_clients
          \/ ~ DisconnectionIsValid(client_id, channel_id, connection_id)
       THEN UNCHANGED server_state
       ELSE /\ active_channels' =
                 [active_channels EXCEPT ![channel_id].tcp_connections = @ \ {connection_id}]
            /\ UNCHANGED <<active_clients, active_ports, active_tcp_connections,
                           next_client_id, next_channel_id, next_connection_id>>
    /\ UNCHANGED <<handler, handshake, client_state>>

HandleTcpConnectionDisconnected(client_id, channel_id, connection_id) ==
    /\ handler = "server"
    /\ IF \/ client_id \notin DOMAIN active_clients
          \/ ~ DisconnectionIsValid(client_id, channel_id, connection_id)
       THEN UNCHANGED server_state
       ELSE /\ active_tcp_connections' = Remove(active_tcp_connections, connection_id)
            /\ active_channels' =
                 [active_channels EXCEPT ![channel_id].tcp_connections = @ \ {connection_id}]
            /\ UNCHANGED <<active_clients, active_ports, next_client_id, next_channel_id,
                           next_connection_id>>
    /\ UNCHANGED <<handler, handshake, client_state>>

\* a call that ends in unimplemented!()
Panic == [status |-> "Panic", id |-> None, ops |-> <<>>, error |-> NoError]

\* DataBeingSent is unimplemented!(): the call panics for a live client
HandleDataBeingSent_returns(client_id, channel, connection) ==
    IF client_id \notin DOMAIN active_clients THEN UnknownClientId(client_id) ELSE Panic

HandleDataBeingSent(client_id, channel, connection) ==
    /\ handler = "server"
    /\ UNCHANGED <<handler, handshake, server_state, client_state>>

\* new_channel_tcp_connection: the error the validations end in, if any
NewConnectionError(channel_id) ==
    IF channel_id \notin DOMAIN active_channels
    THEN Error("UnknownChannelId", None, channel_id, None, None)
    ELSE IF active_channels[channel_id].connection_type # "Tcp"
    THEN Error("ConnectionAddedToNonTcpChannel", None, channel_id, None, None)
    ELSE NoError

\* new_channel_tcp_connection passes its validations and its loop terminates
new_channel_tcp_connection_allocates(channel_id) ==
    /\ NewConnectionError(channel_id) = NoError
    /\ CanAllocate(DOMAIN active_tcp_connections)

new_channel_tcp_connection_returns(channel_id) ==
    IF NewConnectionError(channel_id) # NoError
    THEN Err(NewConnectionError(channel_id))
    ELSE LET new_connection_id == Probe(next_connection_id, DOMAIN active_tcp_connections)
         IN  Ok(new_connection_id,
                <<SendMessageToDsrpClient(
                     Addressee(active_channels[channel_id].owner),
                     NewIncomingTcpConnection(channel_id, new_connection_id))>>)

\* (new_channel_tcp_connection_counting_first: the counter is advanced
\* before the validations instead of after them)
new_channel_tcp_connection_counting_first(channel_id) ==
    /\ handler = "server"
    /\ Cardinality(DOMAIN active_tcp_connections) < MaxConnections
    /\ CanAllocate(DOMAIN active_tcp_connections)
    /\ LET new_connection_id == Probe(next_connection_id, DOMAIN active_tcp_connections)
           connection == [owning_channel |-> channel_id,
                          owning_client |-> ConnectionOwner(channel_id)]
       IN  /\ next_connection_id' = new_connection_id
           /\ IF NewConnectionError(channel_id) # NoError
              THEN UNCHANGED <<active_tcp_connections, active_channels>>
              ELSE /\ active_tcp_connections' =
                        Insert(active_tcp_connections, new_connection_id, connection)
                   /\ active_channels' =
                        [active_channels EXCEPT
                            ![channel_id].tcp_connections = @ \cup {new_connection_id}]
    /\ UNCHANGED <<active_clients, active_ports, next_client_id, next_channel_id>>
    /\ UNCHANGED <<handler, handshake, client_state>>

new_channel_tcp_connection(channel_id) ==
    /\ handler = "server"
    /\ IF NewConnectionError(channel_id) # NoError
       THEN UNCHANGED server_state
       ELSE /\ Cardinality(DOMAIN active_tcp_connections) < MaxConnections
            /\ CanAllocate(DOMAIN active_tcp_connections)
            /\ LET new_connection_id == Probe(next_connection_id, DOMAIN active_tcp_connections)
                   connection == [owning_channel |-> channel_id,
                                  owning_client |-> ConnectionOwner(channel_id)]
               IN  /\ next_connection_id' = new_connection_id
                   /\ active_tcp_connections' =
                        Insert(active_tcp_connections, new_connection_id, connection)
                   /\ active_channels' =
                        [active_channels EXCEPT
                            ![channel_id].tcp_connections = @ \cup {new_connection_id}]
            /\ UNCHANGED <<active_clients, active_ports, next_client_id, next_channel_id>>
    /\ UNCHANGED <<handler, handshake, client_state>>

tcp_connection_disconnected_returns(connection_id) ==
    IF connection_id \notin DOMAIN active_tcp_connections
    THEN Ok(None, <<>>)
    ELSE LET connection == active_tcp_connections[connection_id]
         IN  Ok(None, <<SendMessageToDsrpClient(
                           Addressee(connection.owning_client),
                           TcpConnectionClosed(connection.owning_channel, connection_id))>>)

\* (tcp_connection_disconnected_keeping_channel_set: the connection is taken
\* out of the registry only)
tcp_connection_disconnected_keeping_channel_set(connection_id) ==
    /\ handler = "server"
    /\ IF connection_id \notin DOMAIN active_tcp_connections
       THEN UNCHANGED server_state
       ELSE /\ active_tcp_connections' = Remove(active_tcp_connections, connection_id)
            /\ UNCHANGED <<active_channels, active_clients, active_ports, next_client_id,
                           next_channel_id, next_connection_id>>
    /\ UNCHANGED <<handler, handshake, client_state>>

tcp_connection_disconnected(connection_id) ==
    /\ handler = "server"
    /\ IF connection_id \notin DOMAIN active_tcp_connections
       THEN UNCHANGED server_state
       ELSE LET connection == active_tcp_connections[connection_id]
            IN  /\ active_tcp_connections' = Remove(active_tcp_connections, connection_id)
                /\ active_channels' =
                     IF connection.owning_channel \in DOMAIN active_channels
                     THEN [active_channels EXCEPT
                             ![connection.owning_channel].tcp_connections = @ \ {connection_id}]
                     ELSE active_channels
                /\ UNCHANGED <<active_clients, active_ports, next_client_id, next_channel_id,
                               next_connection_id>>
    /\ UNCHANGED <<handler, handshake, client_state>>

tcp_data_received_returns(connection_id) ==
    IF connection_id \notin DOMAIN active_tcp_connections
    THEN Ok(None, <<>>)
    ELSE LET connection == active_tcp_connections[connection_id]
         IN  Ok(None, <<SendMessageToDsrpClient(
                           Addressee(connection.owning_client),
                           DataReceived(connection.owning_channel, connection_id))>>)

tcp_data_received(connection_id) ==
    /\ handler = "server"
    /\ UNCHANGED <<handler, handshake, server_state, client_state>>

\* (udp_data_received_on_udp_channel: the datagram is relayed for a live
\* Udp channel only)
udp_data_received_on_udp_channel(channel_id) ==
    IF \/ channel_id \notin DOMAIN active_channels
       \/ active_channels[channel_id].connection_type # "Udp"
    THEN Ok(None, <<>>)
    ELSE Ok(None, <<SendMessageToDsrpClient(
                      Addressee(active_channels[channel_id].owner),
                      DataReceived(channel_id, None))>>)

udp_data_received_returns(channel_id) ==
    IF channel_id \notin DOMAIN active_channels
    THEN Ok(None, <<>>)
    ELSE Ok(None, <<SendMessageToDsrpClient(
                      Addressee(active_channels[channel_id].owner),
                      DataReceived(channel_id, None))>>)

udp_data_received(channel_id) ==
    /\ handler = "server"
    /\ UNCHANGED <<handler, handshake, server_state, client_state>>

\* ---------------------------------- socket binding callbacks (from the spec)
\* the channel is live and not bound yet
IsUnbound(channel_id) ==
    /\ channel_id \in DOMAIN active_channels
    /\ ~ active_channels[channel_id].socket_has_been_bound

socket_binding_successful_returns(channel_id) ==
    IF ~ IsUnbound(channel_id)
    THEN Ok(None, <<>>)
    ELSE LET channel == active_channels[channel_id]
         IN  Ok(None, <<SendMessageToDsrpClient(
                           channel.owner,
                           RegistrationSuccessful(channel.registration_request, channel_id))>>)

socket_binding_successful(channel_id) ==
    /\ handler = "server"
    /\ IF ~ IsUnbound(channel_id)
       THEN UNCHANGED server_state
       ELSE /\ active_channels' =
                 [active_channels EXCEPT ![channel_id].socket_has_been_bound = TRUE]
            /\ UNCHANGED <<active_clients, active_ports, active_tcp_connections,
                           next_client_id, next_channel_id, next_connection_id>>
    /\ UNCHANGED <<handler, handshake, client_state>>

socket_binding_failed_returns(channel_id) ==
    IF channel_id \notin DOMAIN active_channels
    THEN Ok(None, <<>>)
    ELSE LET channel == active_channels[channel_id]
         IN  Ok(None, <<SendMessageToDsrpClient(
                           channel.owner,
                           RegistrationFailed(channel.registration_request,
                                              "SocketBindingFailed"))>>)

socket_binding_failed(channel_id) ==
    /\ handler = "server"
    /\ IF channel_id \notin DOMAIN active_channels
       THEN UNCHANGED server_state
       ELSE /\ active_channels' = Remove(active_channels, channel_id)
            /\ active_ports' = Remove(active_ports, active_channels[channel_id].port)
            /\ UNCHANGED <<active_clients, active_tcp_connections,
                           next_client_id, next_channel_id, next_connection_id>>
    /\ UNCHANGED <<handler, handshake, client_state>>

\* ------------------------------------------------------------ handshake
\* the handshake messages are byte strings: sequences of values 0..255
HANDSHAKE_REQUEST_PREFIX == <<68, 83, 82, 80, 65>>      \* b"DSRPA"
HANDSHAKE_RESPONSE_PREFIX == <<68, 83, 82, 80, 66>>     \* b"DSRPB"

\* `n as u8`
AsU8(n) == n % 256

\* bytes[from..to) with 0-based indexes, as a Rust slice
Slice(bytes, from, to) == SubSeq(bytes, from + 1, to)

\* String::from_utf8: the length of the UTF-8 sequence that the byte leads,
\* 0 for a byte that leads none
Utf8Width(byte) ==
    IF byte < 128 THEN 1
    ELSE IF byte \in 194..223 THEN 2
    ELSE IF byte \in 224..239 THEN 3
    ELSE IF byte \in 240..244 THEN 4
    ELSE 0

\* String::from_utf8 succeeds on the bytes: they start with a leading byte,
\* and every leading byte is followed by exactly the continuation bytes of
\* its sequence, the first of them in the range that excludes overlong
\* forms, surrogates and code points above U+10FFFF
IsUtf8(bytes) ==
    \A i \in 1..Len(bytes) :
       LET byte == bytes[i]
           width == Utf8Width(byte)
       IN  IF byte \in 128..191
           THEN i > 1
           ELSE /\ width > 0
                /\ i + width - 1 <= Len(bytes)
                /\ \A k \in 1..(width - 1) : bytes[i + k] \in 128..191
                /\ i + width <= Len(bytes) => bytes[i + width] \notin 128..191
                /\ byte = 224 => bytes[i + 1] >= 160
                /\ byte = 237 => bytes[i + 1] <= 159
                /\ byte = 240 => bytes[i + 1] >= 144
                /\ byte = 244 => bytes[i + 1] <= 143

HandshakeRequest(version) == [client_protocol_version |-> version]

\* (HandshakeRequest_into_bytes_without_length: the version follows the
\* prefix without its length byte)
HandshakeRequest_into_bytes_without_length(request) ==
    IF Len(request.client_protocol_version) > 255
    THEN [status |-> "Panic"]
    ELSE [status |-> "Ok",
          bytes |-> HANDSHAKE_REQUEST_PREFIX \o request.client_protocol_version]

\* HandshakeRequest::into_bytes: the call panics for a version of more than
\* 255 bytes
HandshakeRequest_into_bytes(request) ==
    IF Len(request.client_protocol_version) > 255
    THEN [status |-> "Panic"]
    ELSE [status |-> "Ok",
          bytes |-> HANDSHAKE_REQUEST_PREFIX
                      \o <<AsU8(Len(request.client_protocol_version))>>
                      \o request.client_protocol_version]

\* HandshakeRequest::from_bytes
HandshakeRequest_from_bytes(bytes) ==
    LET prefix_length == Len(HANDSHAKE_REQUEST_PREFIX)
    IN  IF Len(bytes) < prefix_length + 1
        THEN [status |-> "Err", kind |-> "InvalidNumberOfBytes"]
        ELSE LET prefix == Slice(bytes, 0, prefix_length)
                 version_length == bytes[prefix_length + 1]
                 expected_length == prefix_length + 1 + version_length
                 start_index == prefix_length + 1
                 buffer == Slice(bytes, start_index, Len(bytes))
             IN  IF prefix # HANDSHAKE_REQUEST_PREFIX
                 THEN [status |-> "Err", kind |-> "InvalidPrefix"]
                 ELSE IF Len(bytes) # expected_length
                 THEN [status |-> "Err", kind |-> "InvalidNumberOfBytes"]
                 ELSE IF ~ IsUtf8(buffer)
                 THEN [status |-> "Err", kind |-> "FromUtf8Error"]
                 ELSE [status |-> "Ok", request |-> HandshakeRequest(buffer)]

Success == [type |-> "Success", reason |-> <<>>]

Failure(reason) == [type |-> "Failure", reason |-> reason]

\* (HandshakeResponse_into_bytes_without_success_bit: the marker of Success
\* is written as a length)
HandshakeResponse_into_bytes_without_success_bit(response) ==
    IF Len(response.reason) >= 128
    THEN [status |-> "Err", kind |-> "FailureMessageTooLong"]
    ELSE [status |-> "Ok",
          bytes |-> HANDSHAKE_RESPONSE_PREFIX
                      \o <<AsU8(Len(response.reason))>>
                      \o response.reason]

\* HandshakeResponse::into_bytes
HandshakeResponse_into_bytes(response) ==
    IF response.type = "Success"
    THEN [status |-> "Ok", bytes |-> HANDSHAKE_RESPONSE_PREFIX \o <<128>>]
    ELSE IF Len(response.reason) >= 128
    THEN [status |-> "Err", kind |-> "FailureMessageTooLong"]
    ELSE [status |-> "Ok",
          bytes |-> HANDSHAKE_RESPONSE_PREFIX
                      \o <<AsU8(Len(response.reason))>>
                      \o response.reason]

\* a failed HandshakeResponse::from_bytes; marker is the byte of
\* InvalidMarkerByte
ParseError(kind, marker) ==
    [status |-> "Err", kind |-> kind, marker |-> marker, response |-> Success,
     remaining_bytes |-> <<>>]

\* (HandshakeResponse_from_bytes_wanting_more: the reason is taken only when
\* bytes follow it)
HandshakeResponse_from_bytes_wanting_more(bytes) ==
    LET handshake_length == Len(HANDSHAKE_RESPONSE_PREFIX)
    IN  IF Len(bytes) < handshake_length + 1
        THEN ParseError("NotEnoughBytes", None)
        ELSE IF Slice(bytes, 0, handshake_length) # HANDSHAKE_RESPONSE_PREFIX
        THEN ParseError("InvalidPrefix", None)
        ELSE LET x == bytes[handshake_length + 1]
                 start_index == handshake_length + 1
                 end_index == start_index + x
             IN  IF x > 128
                 THEN ParseError("InvalidMarkerByte", x)
                 ELSE IF x = 128
                 THEN [status |-> "Ok", kind |-> "None", marker |-> None,
                       response |-> Success,
                       remaining_bytes |-> Slice(bytes, handshake_length + 1, Len(bytes))]
                 ELSE IF Len(bytes) <= end_index
                 THEN ParseError("NotEnoughBytes", None)
                 ELSE IF ~ IsUtf8(Slice(bytes, start_index, end_index))
                 THEN ParseError("FromUtf8Error", None)
                 ELSE [status |-> "Ok", kind |-> "None", marker |-> None,
                       response |-> Failure(Slice(bytes, start_index, end_index)),
                       remaining_bytes |-> Slice(bytes, end_index, Len(bytes))]

\* HandshakeResponse::from_bytes
HandshakeResponse_from_bytes(bytes) ==
    LET handshake_length == Len(HANDSHAKE_RESPONSE_PREFIX)
    IN  IF Len(bytes) < handshake_length + 1
        THEN ParseError("NotEnoughBytes", None)
        ELSE IF Slice(bytes, 0, handshake_length) # HANDSHAKE_RESPONSE_PREFIX
        THEN ParseError("InvalidPrefix", None)
        ELSE LET x == bytes[handshake_length + 1]
                 start_index == handshake_length + 1
                 end_index == start_index + x
             IN  IF x > 128
                 THEN ParseError("InvalidMarkerByte", x)
                 ELSE IF x = 128
                 THEN [status |-> "Ok", kind |-> "None", marker |-> None,
                       response |-> Success,
                       remaining_bytes |-> Slice(bytes, handshake_length + 1, Len(bytes))]
                 ELSE IF Len(bytes) < end_index
                 THEN ParseError("NotEnoughBytes", None)
                 ELSE IF ~ IsUtf8(Slice(bytes, start_index, end_index))
                 THEN ParseError("FromUtf8Error", None)
                 ELSE [status |-> "Ok", kind |-> "None", marker |-> None,
                       response |-> Failure(Slice(bytes, start_index, end_index)),
                       remaining_bytes |-> Slice(bytes, end_index, Len(bytes))]

\* ------------------------------------------------------ ClientHandler
request_registration_returns(connection_type, port) ==
    Ok(Probe(next_request_id, DOMAIN outstanding_requests), <<>>)

\* the ClientMessage::Register that request_registration returns with the id
request_registration_message(connection_type, port) ==
    [type |-> "Register",
     request |-> Probe(next_request_id, DOMAIN outstanding_requests),
     connection_type |-> connection_type,
     port |-> port]

\* (request_registration_without_lookup: the next counter value is taken
\* without looking it up among the outstanding requests)
request_registration_without_lookup(connection_type, port) ==
    /\ handler = "client"
    /\ CanAllocate(DOMAIN outstanding_requests)
    /\ LET request_id == WrappingAdd1(next_request_id)
       IN  /\ next_request_id' = request_id
           /\ outstanding_requests' =
                Insert(outstanding_requests, request_id,
                       [connection_type |-> connection_type, port |-> port])
    /\ UNCHANGED <<handler, handshake, server_state>>

request_registration(connection_type, port) ==
    /\ handler = "client"
    /\ CanAllocate(DOMAIN outstanding_requests)
    /\ LET request_id == Probe(next_request_id, DOMAIN outstanding_requests)
       IN  /\ next_request_id' = request_id
           /\ outstanding_requests' =
                Insert(outstanding_requests, request_id,
                       [connection_type |-> connection_type, port |-> port])
    /\ UNCHANGED <<handler, handshake, server_state>>

HandleRegistrationSuccessful_returns(request, created_channel) ==
    IF request \notin DOMAIN outstanding_requests
    THEN Err(Error("UnknownRequest", None, None, None, request))
    ELSE Ok(None, <<NotifyChannelOpened(request, created_channel)>>)

HandleRegistrationSuccessful(request, created_channel) ==
    /\ handler = "client"
    /\ IF request \notin DOMAIN outstanding_requests
       THEN UNCHANGED client_state
       ELSE /\ outstanding_requests' = Remove(outstanding_requests, request)
            /\ UNCHANGED next_request_id
    /\ UNCHANGED <<handler, handshake, server_state>>

\* the other ServerMessage variants are unimplemented!(): the call panics
HandleUnimplementedServerMessage_returns(type) == Panic

HandleUnimplementedServerMessage(type) ==
    /\ handler = "client"
    /\ UNCHANGED <<handler, handshake, server_state, client_state>>

\* ------------------------------------------------------ specification
Next ==
    \/ \E version \in Versions : add_dsrp_client(version)
    \/ \E client_id \in Ids : remove_dsrp_client(client_id)
    \/ \E client_id \in Ids, request \in RequestIds, connection_type \in ConnectionType,
          port \in Ports : HandleRegister(client_id, request, connection_type, port)
    \/ \E client_id \in Ids, channel \in Ids : HandleUnregister(client_id, channel)
    \/ \E client_id \in Ids, channel \in Ids, connection \in Ids :
          HandleTcpConnectionDisconnected(client_id, channel, connection)
    \/ \E client_id \in Ids, channel \in Ids, connection \in Ids \cup {None} :
          HandleDataBeingSent(client_id, channel, connection)
    \/ \E channel \in Ids : new_channel_tcp_connection(channel)
    \/ \E connection \in Ids : tcp_connection_disconnected(connection)
    \/ \E connection \in Ids : tcp_data_received(connection)
    \/ \E channel \in Ids : udp_data_received(channel)
    \/ \E channel \in Ids : socket_binding_successful(channel)
    \/ \E channel \in Ids : socket_binding_failed(channel)
    \/ \E connection_type \in ConnectionType, port \in Ports :
          request_registration(connection_type, port)
    \/ \E request \in Ids, created_channel \in Ids :
          HandleRegistrationSuccessful(request, created_channel)
    \/ \E type \in {"DataReceived", "TcpConnectionClosed", "NewIncomingTcpConnection",
                    "RegistrationFailed"} : HandleUnimplementedServerMessage(type)

Spec == Init /\ [][Next]_vars

\* the version of the crate, env!("CARGO_PKG_VERSION"): "0.1.0"
CURRENT_VERSION == <<48, 46, 49, 46, 48>>

\* add_dsrp_client: format!("Protocol version {} requested but only protocol
\* version {} is supported", ..)
HandshakeFailureReason(client_protocol_version) ==
    <<80, 114, 111, 116, 111, 99, 111, 108, 32, 118, 101, 114, 115, 105, 111, 110, 32>> \o client_protocol_version
    \o <<32, 114, 101, 113, 117, 101, 115, 116, 101, 100, 32, 98, 117, 116, 32, 111, 110, 108, 121, 32, 112, 114, 111, 116, 111, 99, 111, 108, 32, 118, 101, 114, 115, 105, 111, 110, 32>> \o CURRENT_VERSION
    \o <<32, 105, 115, 32, 115, 117, 112, 112, 111, 114, 116, 101, 100>>

\* add_dsrp_client: the response the handshake ends in
add_dsrp_client_response(request) ==
    IF request.client_protocol_version # CURRENT_VERSION
    THEN Failure(HandshakeFailureReason(request.client_protocol_version))
    ELSE Success

\* ------------------------------------------------ the handshake exchange
MaxVersionLength == 256     \* longest version string and reason tried
MaxPayloadLength == 3       \* longest payload of a hand-made response

\* strings of n bytes: digits, and two-byte characters (U+00E9)
Digits(n) == [i \in 1..n |-> 48 + (i % 10)]

Accented(n) == [i \in 1..n |-> IF i % 2 = 1 THEN 195 ELSE 169]

Strings ==
    {string \in {Digits(n) : n \in 0..MaxVersionLength}
                   \cup {Accented(n) : n \in 0..MaxVersionLength}
                   \cup {CURRENT_VERSION} : IsUtf8(string)}

\* bytes that follow a response in the stream
ExtraBytes == {<<>>, <<0>>, <<255, 128>>, HANDSHAKE_RESPONSE_PREFIX \o <<128>>}

\* byte strings that arrive where a response is expected
Payloads ==
    {Digits(n) : n \in 0..MaxPayloadLength}
       \cup {<<255>>, <<195>>, <<195, 169, 65>>, Digits(126), Digits(127), Digits(128)}

ReceivedBytes ==
    {prefix \o marker \o payload :
        prefix \in {HANDSHAKE_RESPONSE_PREFIX, HANDSHAKE_REQUEST_PREFIX, <<68, 83, 82, 80>>, <<>>},
        marker \in {<<>>, <<0>>, <<1>>, <<2>>, <<3>>, <<127>>, <<128>>, <<129>>, <<255>>},
        payload \in Payloads}

\* a handshake starts with a request to send, a response to send or bytes
\* that were received
HandshakeInit ==
    /\ handler = "server"
    /\ active_clients = EmptyMap
    /\ active_ports = EmptyMap
    /\ active_channels = EmptyMap
    /\ active_tcp_connections = EmptyMap
    /\ next_client_id = 0
    /\ next_channel_id = 0
    /\ next_connection_id = 0
    /\ outstanding_requests = EmptyMap
    /\ next_request_id = 0
    /\ handshake \in
          {[stage |-> "request", request |-> HandshakeRequest(version)] : version \in Strings}
             \cup {[stage |-> "response", response |-> response] :
                      response \in {Success} \cup {Failure(reason) : reason \in Strings}}
             \cup {[stage |-> "received", bytes |-> bytes] : bytes \in ReceivedBytes}

\* the client serializes its request
RequestIntoBytes ==
    /\ handshake.stage = "request"
    /\ handshake' = [stage |-> "request sent",
                     request |-> handshake.request,
                     sent |-> HandshakeRequest_into_bytes(handshake.request)]
    /\ UNCHANGED <<handler, server_state, client_state>>

\* the server parses the bytes of the request
RequestFromBytes ==
    /\ handshake.stage = "request sent"
    /\ handshake.sent.status = "Ok"
    /\ handshake' = [stage |-> "request received",
                     request |-> handshake.request,
                     parsed |-> HandshakeRequest_from_bytes(handshake.sent.bytes)]
    /\ UNCHANGED <<handler, server_state, client_state>>

\* the server answers the parsed request
AddClientResponds ==
    /\ handshake.stage = "request received"
    /\ handshake.parsed.status = "Ok"
    /\ handshake' = [stage |-> "response",
                     request |-> handshake.parsed.request,
                     response |-> add_dsrp_client_response(handshake.parsed.request)]
    /\ UNCHANGED <<handler, server_state, client_state>>

\* the server serializes its response
ResponseIntoBytes ==
    /\ handshake.stage = "response"
    /\ handshake' = [handshake EXCEPT !.stage = "response sent"]
                       @@ [sent |-> HandshakeResponse_into_bytes(handshake.response)]
    /\ UNCHANGED <<handler, server_state, client_state>>

\* the client has read the response and the bytes that followed it
ReadAhead(extra) ==
    /\ handshake.stage = "response sent"
    /\ handshake.sent.status = "Ok"
    /\ handshake' = [stage |-> "received",
                     response |-> handshake.response,
                     extra |-> extra,
                     bytes |-> handshake.sent.bytes \o extra]
    /\ UNCHANGED <<handler, server_state, client_state>>

\* the client parses what it received
ResponseFromBytes ==
    /\ handshake.stage = "received"
    /\ handshake' = [handshake EXCEPT !.stage = "response received"]
                       @@ [parsed |-> HandshakeResponse_from_bytes(handshake.bytes)]
    /\ UNCHANGED <<handler, server_state, client_state>>

HandshakeNext ==
    \/ RequestIntoBytes
    \/ RequestFromBytes
    \/ AddClientResponds
    \/ ResponseIntoBytes
    \/ \E extra \in ExtraBytes : ReadAhead(extra)
    \/ ResponseFromBytes

HandshakeSpec == HandshakeInit /\ [][HandshakeNext]_vars

\* ============================================================ properties
Channels == DOMAIN active_channels

Connections == DOMAIN active_tcp_connections

Clients == DOMAIN active_clients

\* C1: the port index is exactly the inverse of the channel map: every live
\* channel ch has ports[ch.port] = ch, every entry of ports names a live
\* channel with that port, and no two live channels have the same port.
PortsAreInverseOfChannels ==
    /\ \A ch \in Channels :
          /\ active_channels[ch].port \in DOMAIN active_ports
          /\ active_ports[active_channels[ch].port] = ch
    /\ \A port \in DOMAIN active_ports :
          /\ active_ports[port] \in Channels
          /\ active_channels[active_ports[port]].port = port
    /\ \A c1, c2 \in Channels :
          c1 # c2 => active_channels[c1].port # active_channels[c2].port

\* two channels are live, one of them under an id that an erased channel of
\* another client had before: registrations, an erasure and a wrap happened
TwoChannelsAfterErasure ==
    /\ Cardinality(Channels) = 2
    /\ \E ch \in Channels, client_id \in Clients :
          /\ ch \in active_clients[client_id].channels
          /\ active_channels[ch].owner # client_id

\* C2: every live TCP connection refers to a channel that is live, of type
\* TCP and bound; it is a member of that channel's connection set; and its
\* owning_client is that channel's owner.
ConnectionsReferToBoundTcpChannels ==
    \A c \in Connections :
        LET connection == active_tcp_connections[c]
        IN  /\ connection.owning_channel \in Channels
            /\ active_channels[connection.owning_channel].connection_type = "Tcp"
            /\ active_channels[connection.owning_channel].socket_has_been_bound
            /\ c \in active_channels[connection.owning_channel].tcp_connections
            /\ connection.owning_client = active_channels[connection.owning_channel].owner

\* nothing in the state refers to the client id
NothingRefersTo(id) ==
    /\ \A ch \in Channels : active_channels[ch].owner # id
    /\ \A c \in Connections : active_tcp_connections[c].owning_client # id

ErrorsLeaveStateUnchanged ==
    [][<<server_state, client_state>>' # <<server_state, client_state>> =>
       /\ \A version \in Versions :
             ~ (/\ add_dsrp_client(version)
                /\ add_dsrp_client_returns(version).status = "Err")
       /\ \A client_id \in Ids, request \in RequestIds, connection_type \in ConnectionType,
             port \in Ports :
             ~ (/\ HandleRegister(client_id, request, connection_type, port)
                /\ HandleRegister_returns(client_id, request, connection_type, port).status
                      = "Err")
       /\ \A client_id \in Ids, channel \in Ids :
             ~ (/\ HandleUnregister(client_id, channel)
                /\ \E r \in HandleUnregister_may_return(client_id, channel) :
                      r.status = "Err")
       /\ \A client_id \in Ids, channel \in Ids, connection \in Ids :
             ~ (/\ HandleTcpConnectionDisconnected(client_id, channel, connection)
                /\ HandleTcpConnectionDisconnected_returns(client_id, channel,
                                                           connection).status = "Err")
       /\ \A client_id \in Ids, channel \in Ids, connection \in Ids \cup {None} :
             ~ (/\ HandleDataBeingSent(client_id, channel, connection)
                /\ HandleDataBeingSent_returns(client_id, channel, connection).status
                      = "Err")
       /\ \A channel \in Ids :
             ~ (/\ new_channel_tcp_connection(channel)
                /\ new_channel_tcp_connection_returns(channel).status = "Err")
       /\ \A request \in Ids, created_channel \in Ids :
             ~ (/\ HandleRegistrationSuccessful(request, created_channel)
                /\ HandleRegistrationSuccessful_returns(request, created_channel).status
                      = "Err")]_vars

\* a state with a live Udp channel of one client, another live client and a
\* wrapped counter: Unregister by the other client ends in
\* ChannelNotOwnedByRequester, Unregister of the free channel id in
\* ChannelNotFound and a connection to the channel in
\* ConnectionAddedToNonTcpChannel
ErrorsAreReturned ==
    \E client_id \in Clients, ch \in Channels, other \in Ids \ Channels :
        /\ Err(Error("ChannelNotOwnedByRequester", client_id, ch,
                     active_channels[ch].owner, None))
              \in HandleUnregister_may_return(client_id, ch)
        /\ HandleUnregister_may_return(client_id, other)
              = {Err(Error("ChannelNotFound", None, other, None, None))}
        /\ new_channel_tcp_connection_returns(ch)
              = Err(Error("ConnectionAddedToNonTcpChannel", None, ch, None, None))
        /\ new_channel_tcp_connection_returns(other).error.kind = "UnknownChannelId"
        /\ next_channel_id # 0
        /\ next_connection_id # 0

\* the messages a returned value hands to clients
Messages(result) == {result.ops[i].message : i \in DOMAIN result.ops}

\* C5: for each RequestId received in a Register message the server emits
\* RegistrationSuccessful at most once and RegistrationFailed at most once,
\* and never both.  Stated on two successive calls: when Register has
\* returned RegistrationSuccessful for a request, no channel is left for
\* which socket_binding_successful returns RegistrationSuccessful for that
\* request once more.
RegistrationSuccessfulAtMostOnce ==
    [][\A client_id \in Ids, request \in RequestIds, connection_type \in ConnectionType,
          port \in Ports :
          (/\ HandleRegister_allocates(client_id, port)
           /\ HandleRegister(client_id, request, connection_type, port)
           /\ \E ch \in Ids :
                 RegistrationSuccessful(request, ch)
                    \in Messages(HandleRegister_returns(client_id, request,
                                                        connection_type, port)))
             => \A ch \in Ids :
                   RegistrationSuccessful(request, ch)
                      \notin Messages(socket_binding_successful_returns(ch))']_vars

\* the first value from counter + 1 on, wrapping around, that is not live
FirstFree(counter, live) ==
    LET k == CHOOSE k \in 1..IdModulus :
                /\ (counter + k) % IdModulus \notin live
                /\ \A j \in 1..(k - 1) : (counter + j) % IdModulus \in live
    IN  (counter + k) % IdModulus

\* the call allocated id: it is the first free value after the counter, it
\* was not live, and the counter is left at it
Allocated(id, counter, live, counter_after, live_after) ==
    /\ id = FirstFree(counter, live)
    /\ id \notin live
    /\ counter_after = id
    /\ live_after = live \cup {id}

PortIsHeld(port) == \E ch \in Channels : active_channels[ch].port = port

RegisterOnFreePortReturnsOneStart ==
    \A client_id \in Clients, request \in RequestIds,
       connection_type \in ConnectionType, port \in Ports :
       (~ PortIsHeld(port) /\ HandleRegister_allocates(client_id, port)) =>
          LET channel == Probe(next_channel_id, Channels)
          IN  HandleRegister_returns(client_id, request, connection_type, port)
                 = Ok(None, <<IF connection_type = "Tcp"
                               THEN StartTcpOperations(port, channel)
                               ELSE StartUdpOperations(port, channel)>>)

\* C9: RegistrationSuccessful is emitted only by socket_binding_successful:
\* what Register returns holds no RegistrationSuccessful, the message is
\* deferred until the socket is bound.
RegisterDefersRegistrationSuccessful ==
    \A client_id \in Clients, request \in RequestIds,
       connection_type \in ConnectionType, port \in Ports :
       HandleRegister_allocates(client_id, port) =>
          \A message \in Messages(HandleRegister_returns(client_id, request,
                                                         connection_type, port)) :
             message.type # "RegistrationSuccessful"

Reopened(port) ==
    /\ port \notin DOMAIN active_ports
    /\ \A client_id \in Clients, request \in RequestIds, connection_type \in ConnectionType :
          HandleRegister_returns(client_id, request, connection_type, port).ops[1].type
             = (IF connection_type = "Tcp" THEN "StartTcpOperations"
                ELSE "StartUdpOperations")

\* C11: after a successful Unregister of a channel by its owner, and after
\* remove_client(owner), the port the channel held is no longer reserved: a
\* Register for it by any live client, also one added later, is accepted as
\* a fresh registration and not answered with PortAlreadyRegistered.
ErasureReopensPort ==
    /\ [](\A client_id \in Clients, port \in Ports :
             (~ PortIsHeld(port) /\ HandleRegister_allocates(client_id, port)) =>
                Reopened(port))
    /\ [][<<server_state, client_state>>' # <<server_state, client_state>> =>
          /\ \A client_id \in Clients, ch \in Channels, port \in Ports :
                (/\ active_channels[ch].owner = client_id
                 /\ active_channels[ch].port = port
                 /\ HandleUnregister(client_id, ch))
                   => Reopened(port)'
          /\ \A client_id \in Clients, ch \in Channels, port \in Ports :
                (/\ active_channels[ch].owner = client_id
                 /\ active_channels[ch].port = port
                 /\ remove_dsrp_client(client_id))
                   => Reopened(port)']_vars

\* client 1 has been removed; the channel counter went 1, 0, 1 and only
\* channel 1 of client 0 is live: three registrations were accepted on two
\* ports, so a port was registered again after its channel was erased
PortRegisteredAgain ==
    /\ Clients = {0}
    /\ next_client_id = 0
    /\ next_channel_id = 1
    /\ Channels = {1}
    /\ active_channels[1].owner = 0
    /\ active_channels[1].connection_type = "Udp"
    /\ active_clients[0].channels = {0, 1}

\* C12: Unregister from a live client returns ChannelNotFound(channel) when
\* no live channel has the id and ChannelNotOwnedByRequester{channel,
\* requesting_client, owning_client} when another client owns the channel;
\* in both cases no operation is emitted and nothing is changed.
UnregisterErrors ==
    /\ [](\A client_id \in Clients, ch \in Ids :
             /\ ch \notin Channels =>
                   HandleUnregister_may_return(client_id, ch)
                      = {Err(Error("ChannelNotFound", None, ch, None, None))}
             /\ (ch \in Channels /\ active_channels[ch].owner # client_id) =>
                   HandleUnregister_may_return(client_id, ch)
                      = {Err(Error("ChannelNotOwnedByRequester", client_id, ch,
                                   active_channels[ch].owner, None))})
    /\ [][<<server_state, client_state>>' # <<server_state, client_state>> =>
          \A client_id \in Clients, ch \in Ids :
             ~ (/\ ch \in Channels => active_channels[ch].owner # client_id
                /\ HandleUnregister(client_id, ch))]_vars

\* a bound Tcp channel with a connection is owned by one client, the other
\* client is live and the other channel id is free: the other client's
\* Unregister of either id is refused
UnregisterIsRefused ==
    \E client_id \in Clients, ch \in Channels :
        /\ active_channels[ch].owner # client_id
        /\ active_channels[ch].socket_has_been_bound
        /\ active_channels[ch].tcp_connections # {}
        /\ Ids \ Channels # {}
        /\ \A other \in Ids :
              \A r \in HandleUnregister_may_return(client_id, other) : r.status = "Err"

\* the connections the channel has: its connection set
ConnectionsOf(ch) == active_channels[ch].tcp_connections

OwnedChannels(id) == {ch \in Channels : active_channels[ch].owner = id}

\* the operations that tear down the channels the client owns
TeardownOperations(id) ==
    {StopOperation(active_channels[ch]) : ch \in OwnedChannels(id)}
       \cup {DisconnectConnection(c) :
                c \in UNION {ConnectionsOf(ch) : ch \in OwnedChannels(id)}}

\* C14: remove_client(id) for an id that is no live client returns an empty
\* list and changes nothing; for a live client it removes the client and
\* returns exactly one Stop operation per channel the client owns (by type,
\* with the channel's port), exactly one DisconnectConnection per connection
\* of those channels, and no other operation.
RemoveClientReturnsTeardown ==
    /\ [](\A id \in Ids :
             \A r \in remove_dsrp_client_may_return(id) :
                /\ r.status = "Ok"
                /\ id \notin Clients => r.ops = <<>>
                /\ id \in Clients =>
                      /\ Len(r.ops) = Cardinality(TeardownOperations(id))
                      /\ {r.ops[i] : i \in DOMAIN r.ops} = TeardownOperations(id))
    /\ [][<<server_state, client_state>>' # <<server_state, client_state>> =>
          \A id \in Ids :
             remove_dsrp_client(id) => (id \in Clients /\ id \notin Clients')]_vars

\* in the list every DisconnectConnection of a connection of a channel comes
\* before the Stop operation of that channel
DisconnectsComeFirst(ops) ==
    \A i, j \in DOMAIN ops :
       \A ch \in Channels :
          (/\ ops[j] = StopOperation(active_channels[ch])
           /\ ops[i].type = "DisconnectConnection"
           /\ ops[i].connection \in ConnectionsOf(ch))
             => i < j

\* C15: in every operation list returned by Unregister and by remove_client
\* each DisconnectConnection for a connection of a channel appears before the
\* Stop operation for that channel's port.
DisconnectsPrecedeStop ==
    /\ \A client_id \in Clients, ch \in Ids :
          \A r \in HandleUnregister_may_return(client_id, ch) : DisconnectsComeFirst(r.ops)
    /\ \A id \in Ids :
          \A r \in remove_dsrp_client_may_return(id) : DisconnectsComeFirst(r.ops)

\* C16: new_channel_tcp_connection fails with UnknownChannelId for a channel
\* that is not live, with ConnectionAddedToNonTcpChannel for a Udp channel and
\* with ConnectionAddedToUnboundChannel for a Tcp channel that is not bound
\* yet, registering nothing; only a live bound Tcp channel gets a connection.
NewConnectionNeedsBoundTcpChannel ==
    \A ch \in Ids :
       LET error == new_channel_tcp_connection_returns(ch).error
       IN  /\ ch \notin Channels =>
                error = Error("UnknownChannelId", None, ch, None, None)
           /\ (ch \in Channels /\ active_channels[ch].connection_type = "Udp") =>
                error = Error("ConnectionAddedToNonTcpChannel", None, ch, None, None)
           /\ (/\ ch \in Channels
               /\ active_channels[ch].connection_type = "Tcp"
               /\ ~ active_channels[ch].socket_has_been_bound
               /\ CanAllocate(Connections)) =>
                error = Error("ConnectionAddedToUnboundChannel", None, ch, None, None)

\* C17: TcpConnectionDisconnected from a live client returns an empty list
\* and changes nothing when the connection is unknown, the channel is
\* unknown, the connection's owning channel is another one or the channel's
\* owner is not the sender; otherwise it removes the connection from the
\* registry and from the channel's connection set and returns exactly
\* [DisconnectConnection{connection}].
ClientDisconnectionIsValidated ==
    /\ [](\A client_id \in Clients, ch \in Ids, c \in Ids :
             HandleTcpConnectionDisconnected_returns(client_id, ch, c) =
                IF /\ c \in Connections
                   /\ ch \in Channels
                   /\ active_tcp_connections[c].owning_channel = ch
                   /\ active_channels[ch].owner = client_id
                THEN Ok(None, <<DisconnectConnection(c)>>)
                ELSE Ok(None, <<>>))
    /\ [][<<server_state, client_state>>' # <<server_state, client_state>> =>
          \A client_id \in Clients, ch \in Ids, c \in Ids :
             HandleTcpConnectionDisconnected(client_id, ch, c) =>
                /\ c \in Connections
                /\ ch \in Channels
                /\ active_tcp_connections[c].owning_channel = ch
                /\ active_channels[ch].owner = client_id
                /\ active_tcp_connections' = Remove(active_tcp_connections, c)
                /\ active_channels' =
                     [active_channels EXCEPT ![ch].tcp_connections = @ \ {c}]
                /\ c \notin ConnectionsOf(ch)'
                /\ UNCHANGED <<active_clients, active_ports>>]_vars

\* two live clients, the first one owns a Tcp channel with a connection in
\* its set: the notification is accepted from the owner and ignored from the
\* other client, for the other channel id and for the other connection id
DisconnectionAcceptedAndIgnored ==
    /\ Clients = {0, 1}
    /\ \E ch \in Channels, c \in Connections :
          /\ active_channels[ch].owner = 0
          /\ active_tcp_connections[c].owning_channel = ch
          /\ c \in ConnectionsOf(ch)
          /\ HandleTcpConnectionDisconnected_returns(0, ch, c).ops # <<>>
          /\ HandleTcpConnectionDisconnected_returns(1, ch, c).ops = <<>>
          /\ \E other \in Ids \ Connections :
                HandleTcpConnectionDisconnected_returns(0, ch, other).ops = <<>>

DataBeingSentReturnsOperations ==
    \A client_id \in Clients, ch \in Ids, c \in Ids \cup {None} :
       HandleDataBeingSent_returns(client_id, ch, c).status = "Ok"

\* C21: add_client succeeds iff the handshake's version equals the server's
\* current version: on success it registers a new client with an empty
\* channel set under an id that no live client has and returns that id; on
\* a version mismatch it returns the failure response, registers no client
\* and leaves the state unchanged.
AddClientChecksVersion ==
    /\ [](\A version \in Versions :
             /\ version # CURRENT_PROTOCOL_VERSION =>
                   add_dsrp_client_returns(version).status = "Err"
             /\ add_dsrp_client_allocates(version) =>
                   /\ add_dsrp_client_returns(version).status = "Ok"
                   /\ add_dsrp_client_returns(version).id \in Ids \ Clients)
    /\ [][<<server_state, client_state>>' # <<server_state, client_state>> =>
          \A version \in Versions :
             add_dsrp_client(version) =>
                /\ version = CURRENT_PROTOCOL_VERSION
                /\ \E id \in Ids \ Clients :
                      /\ id = add_dsrp_client_returns(version).id
                      /\ Clients' = Clients \cup {id}
                      /\ active_clients'[id].channels = {}
                      /\ \A other \in Clients : active_clients'[other] = active_clients[other]
                /\ UNCHANGED <<active_ports, active_channels, active_tcp_connections>>]_vars

\* a client was admitted while another one was live, and a handshake of
\* another version is refused in that state
ClientAdmittedNextToAnother ==
    /\ Clients = {0, 1}
    /\ next_client_id = 0
    /\ \A id \in Clients : active_clients[id].channels = {}
    /\ add_dsrp_client_returns("other").status = "Err"

\* C22: handle_client_message from an id that is not a live client, never
\* allocated or removed since, returns UnknownClientId(id) for every message
\* variant and no operation.
UnknownClientIsRefused ==
    \A id \in Ids \ Clients :
       LET refused == Err(Error("UnknownClientId", id, None, None, None))
       IN  /\ refused.ops = <<>>
           /\ \A request \in RequestIds, connection_type \in ConnectionType, port \in Ports :
                 HandleRegister_returns(id, request, connection_type, port) = refused
           /\ \A ch \in Ids :
                 HandleUnregister_may_return(id, ch) = {refused}
           /\ \A ch \in Ids, c \in Ids :
                 HandleTcpConnectionDisconnected_returns(id, ch, c) = refused
           /\ \A ch \in Ids, c \in Ids \cup {None} :
                 HandleDataBeingSent_returns(id, ch, c) = refused

\* client 1 was admitted and removed again while client 0 lives on with a
\* channel and a connection that the removed client names in its messages
RemovedClientIsUnknown ==
    /\ Clients = {0}
    /\ next_client_id = 0
    /\ Channels # {}
    /\ Connections # {}
    /\ HandleRegister_returns(1, 25, "Tcp", 23).status = "Err"

\* C23: each server channel goes Unbound -> Bound -> Destroyed: it is
\* created unbound by Register, its bound flag changes only from false to
\* true and only through socket_binding_successful, and it is destroyed only
\* by Unregister from its owner, removal of its owner or
\* socket_binding_failed.
ChannelLifeCycle ==
    [][<<server_state, client_state>>' # <<server_state, client_state>> =>
       \A ch \in Ids :
          /\ (ch \notin Channels /\ ch \in Channels') =>
                /\ ~ active_channels'[ch].socket_has_been_bound
                /\ \E client_id \in Clients, request \in RequestIds,
                      connection_type \in ConnectionType, port \in Ports :
                      HandleRegister(client_id, request, connection_type, port)
          /\ (ch \in Channels /\ ch \in Channels') =>
                \/ active_channels'[ch].socket_has_been_bound
                      = active_channels[ch].socket_has_been_bound
                \/ /\ ~ active_channels[ch].socket_has_been_bound
                   /\ active_channels'[ch].socket_has_been_bound
                   /\ socket_binding_successful(ch)
          /\ (ch \in Channels /\ ch \notin Channels') =>
                \/ HandleUnregister(active_channels[ch].owner, ch)
                \/ remove_dsrp_client(active_channels[ch].owner)
                \/ socket_binding_failed(ch)]_vars

\* every SendMessageToDsrpClient of the list is addressed to the client
AddressedTo(ops, client_id) ==
    \A i \in DOMAIN ops :
       ops[i].type = "SendMessageToDsrpClient" => ops[i].client = client_id

\* every SendMessageToDsrpClient of the list names a live channel and is
\* addressed to the owner of that channel
AddressedToOwner(ops) ==
    \A i \in DOMAIN ops :
       ops[i].type = "SendMessageToDsrpClient" =>
          /\ ops[i].message.channel \in Channels
          /\ ops[i].client = active_channels[ops[i].message.channel].owner

\* C24: every SendMessageToDsrpClient is addressed to the client it
\* concerns: RegistrationFailed{PortAlreadyRegistered} to the sender of the
\* Register; RegistrationSuccessful, RegistrationFailed{SocketBindingFailed},
\* NewIncomingTcpConnection, TcpConnectionClosed and DataReceived to the
\* client that owns the channel when the message is emitted.
MessagesGoToTheClientConcerned ==
    /\ \A client_id \in Clients, request \in RequestIds,
          connection_type \in ConnectionType, port \in Ports :
          (PortIsRegistered(port) \/ HandleRegister_allocates(client_id, port)) =>
             AddressedTo(HandleRegister_returns(client_id, request, connection_type, port).ops,
                         client_id)
    /\ \A ch \in Channels :
          /\ AddressedTo(socket_binding_successful_returns(ch).ops, active_channels[ch].owner)
          /\ AddressedTo(socket_binding_failed_returns(ch).ops, active_channels[ch].owner)
          /\ new_channel_tcp_connection_allocates(ch) =>
                AddressedToOwner(new_channel_tcp_connection_returns(ch).ops)
          /\ AddressedToOwner(udp_data_received_returns(ch).ops)
    /\ \A c \in Connections :
          /\ AddressedToOwner(tcp_connection_disconnected_returns(c).ops)
          /\ AddressedToOwner(tcp_data_received_returns(c).ops)

\* C25: request_registration(type, port) returns a RequestId that is not
\* among the requests outstanding at the call, records it as outstanding
\* with that type and port and returns Register{request = that id, type,
\* port}; two requests outstanding at the same time have different ids.
RequestRegistrationAllocates ==
    /\ [](CanAllocate(DOMAIN outstanding_requests) =>
            \A connection_type \in ConnectionType, port \in Ports :
               LET request_id == request_registration_returns(connection_type, port).id
               IN  /\ request_id \in Ids \ DOMAIN outstanding_requests
                   /\ request_registration_message(connection_type, port) =
                         [type |-> "Register", request |-> request_id,
                          connection_type |-> connection_type, port |-> port])
    /\ [][<<server_state, client_state>>' # <<server_state, client_state>> =>
          \A connection_type \in ConnectionType, port \in Ports :
             request_registration(connection_type, port) =>
                \E request_id \in Ids \ DOMAIN outstanding_requests :
                   /\ request_id = request_registration_returns(connection_type, port).id
                   /\ DOMAIN outstanding_requests' = DOMAIN outstanding_requests \cup {request_id}
                   /\ outstanding_requests'[request_id] =
                         [connection_type |-> connection_type, port |-> port]
                   /\ \A other \in DOMAIN outstanding_requests :
                         outstanding_requests'[other] = outstanding_requests[other]]_vars

\* two requests are outstanding, for different transports and ports; the
\* second one got id 0 after the counter wrapped
TwoRequestsOutstanding ==
    /\ handler = "client"
    /\ DOMAIN outstanding_requests = {0, 1}
    /\ next_request_id = 0
    /\ outstanding_requests[0] = [connection_type |-> "Udp", port |-> 24]
    /\ outstanding_requests[1] = [connection_type |-> "Tcp", port |-> 23]

\* C26: RegistrationSuccessful{request, channel} and RegistrationFailed{
\* request, cause} fail with UnknownRequest(request) when the request is
\* not outstanding; when it is outstanding exactly one notification is
\* returned, NotifyChannelOpened{request, channel} or
\* NotifyRegistrationFailed{request, cause}.
RegistrationResponsesResolveRequests ==
    \A request \in Ids :
       LET unknown == Err(Error("UnknownRequest", None, None, None, request))
           failed == HandleUnimplementedServerMessage_returns("RegistrationFailed")
       IN  /\ \A created_channel \in Ids :
                 HandleRegistrationSuccessful_returns(request, created_channel) =
                    IF request \in DOMAIN outstanding_requests
                    THEN Ok(None, <<NotifyChannelOpened(request, created_channel)>>)
                    ELSE unknown
           /\ IF request \in DOMAIN outstanding_requests
              THEN /\ failed.status = "Ok"
                   /\ Len(failed.ops) = 1
                   /\ failed.ops[1].type = "NotifyRegistrationFailed"
              ELSE failed = unknown

\* C27: NewIncomingTcpConnection{channel, new_connection} returns a list of
\* operations: an empty one for a channel that is not active or is Udp,
\* [CreateTcpConnectionForChannel{channel, new_connection}] for an active
\* Tcp channel.
NewIncomingTcpConnectionIsHandled ==
    handler = "client" =>
       LET r == HandleUnimplementedServerMessage_returns("NewIncomingTcpConnection")
       IN  /\ r.status = "Ok"
           /\ \/ r.ops = <<>>
              \/ /\ Len(r.ops) = 1
                 /\ r.ops[1].type = "CreateTcpConnectionForChannel"

\* C28: TcpConnectionClosed{channel, connection} returns a list of
\* operations: an empty one for a connection that is unknown or recorded
\* under another channel, [CloseTcpConnection{channel, connection}]
\* otherwise.
TcpConnectionClosedIsHandled ==
    handler = "client" =>
       LET r == HandleUnimplementedServerMessage_returns("TcpConnectionClosed")
       IN  /\ r.status = "Ok"
           /\ \/ r.ops = <<>>
              \/ /\ Len(r.ops) = 1
                 /\ r.ops[1].type = "CloseTcpConnection"

\* C29: DataReceived{channel, connection, data} returns a list of
\* operations: [RelayRemotePacket{channel, connection, data}] for a valid
\* target, an empty one otherwise.
DataReceivedIsHandled ==
    handler = "client" =>
       LET r == HandleUnimplementedServerMessage_returns("DataReceived")
       IN  /\ r.status = "Ok"
           /\ \/ r.ops = <<>>
              \/ /\ Len(r.ops) = 1
                 /\ r.ops[1].type = "RelayRemotePacket"

\* C31: for every HandshakeRequest whose version string is at most 255
\* bytes long, into_bytes succeeds and from_bytes of its bytes succeeds and
\* yields a request with the same version string.
RequestRoundTrip ==
    /\ (/\ handshake.stage = "request sent"
        /\ Len(handshake.request.client_protocol_version) <= 255) =>
          handshake.sent.status = "Ok"
    /\ handshake.stage = "request received" =>
          /\ handshake.parsed.status = "Ok"
          /\ handshake.parsed.request = handshake.request

\* a request with a version of 255 bytes has been serialized and parsed
LongestRequestParsed ==
    /\ handshake.stage = "request received"
    /\ Len(handshake.request.client_protocol_version) = 255

\* C32: for every HandshakeResponse r that is Success or a Failure with a
\* reason shorter than 128 bytes and every byte string x, into_bytes(r)
\* succeeds and from_bytes of its bytes followed by x returns exactly (r, x).
ResponseRoundTrip ==
    /\ (/\ handshake.stage = "response sent"
        /\ Len(handshake.response.reason) < 128) =>
          handshake.sent.status = "Ok"
    /\ (handshake.stage = "response received" /\ "extra" \in DOMAIN handshake) =>
          /\ handshake.parsed.status = "Ok"
          /\ handshake.parsed.response = handshake.response
          /\ handshake.parsed.remaining_bytes = handshake.extra

\* a Failure with a reason of 127 bytes was parsed from bytes that were
\* followed by another response
LongestFailureParsedWithReadAhead ==
    /\ handshake.stage = "response received"
    /\ "extra" \in DOMAIN handshake
    /\ handshake.response.type = "Failure"
    /\ Len(handshake.response.reason) = 127
    /\ handshake.extra = HANDSHAKE_RESPONSE_PREFIX \o <<128>>

\* a successful HandshakeResponse::from_bytes
Parsed(response, remaining_bytes) ==
    [status |-> "Ok", kind |-> "None", marker |-> None, response |-> response,
     remaining_bytes |-> remaining_bytes]

\* from_bytes has classified the bytes as the claim says; reasons tells
\* which byte strings it accepts as the reason of a Failure
Classified(parsed, bytes, reasons) ==
    LET n == Len(bytes)
    IN  IF n < 6
        THEN parsed = ParseError("NotEnoughBytes", None)
        ELSE IF SubSeq(bytes, 1, 5) # <<68, 83, 82, 80, 66>>
        THEN parsed = ParseError("InvalidPrefix", None)
        ELSE IF bytes[6] = 128
        THEN parsed = Parsed(Success, SubSeq(bytes, 7, n))
        ELSE IF bytes[6] > 128
        THEN parsed = ParseError("InvalidMarkerByte", bytes[6])
        ELSE IF n - 6 < bytes[6]
        THEN parsed = ParseError("NotEnoughBytes", None)
        ELSE IF SubSeq(bytes, 7, 6 + bytes[6]) \in reasons
        THEN parsed = Parsed(Failure(SubSeq(bytes, 7, 6 + bytes[6])),
                             SubSeq(bytes, 7 + bytes[6], n))
        ELSE parsed = ParseError("FromUtf8Error", None)

\* C33 (as stated): from_bytes classifies every input: fewer than 6 bytes
\* NotEnoughBytes; another prefix than DSRPB InvalidPrefix; marker 0x80
\* Success with all following bytes as remainder; marker m < 0x80 Failure
\* whose reason is exactly the next m bytes, with the bytes after them as
\* remainder, or NotEnoughBytes when fewer than m bytes follow; marker >
\* 0x80 InvalidMarkerByte(marker).
FromBytesClassifiesEveryInput ==
    handshake.stage = "response received" =>
       Classified(handshake.parsed, handshake.bytes, Seq(0..255))

\* C33 (amended): as stated, except that marker m < 0x80 gives the Failure
\* only when the next m bytes are valid UTF-8 and FromUtf8Error when they
\* are not.
FromBytesClassifiesUtf8Input ==
    handshake.stage = "response received" =>
       Classified(handshake.parsed, handshake.bytes, {bytes \in Seq(0..255) : IsUtf8(bytes)})

\* bytes with the right prefix, marker 1 and a byte that is not UTF-8 were
\* parsed
InvalidReasonParsed ==
    /\ handshake.stage = "response received"
    /\ handshake.bytes = HANDSHAKE_RESPONSE_PREFIX \o <<1, 255>>

\* C40: every Failure that add_client returns for a mismatched version, for
\* a client version string of 0 to 255 bytes, has a reason shorter than 128
\* bytes, so into_bytes on it succeeds and never fails with
\* FailureMessageTooLong.
AddClientFailureFitsTheWire ==
    (/\ handshake.stage = "response sent"
     /\ "request" \in DOMAIN handshake
     /\ handshake.response.type = "Failure") =>
       /\ Len(handshake.response.reason) < 128
       /\ handshake.sent.status = "Ok"

\* ---- determinism of the handlers ----

\* the server calls whose result depends on the iteration order of a hash
\* set, with the results each can give in the current state
OrderDependentResults ==
    {remove_dsrp_client_may_return(id) : id \in Ids}
    \cup {HandleUnregister_may_return(id, ch) : id \in Ids, ch \in Ids}

IsDisconnect(operation) == operation.type = "DisconnectConnection"

Occurrences(ops, operation) == Cardinality({i \in 1..Len(ops) : ops[i] = operation})

Range(ops) == {ops[i] : i \in 1..Len(ops)}

\* the same operations, in any order
SameOperations(a, b) ==
    /\ Len(a) = Len(b)
    /\ \A operation \in Range(a) \cup Range(b) :
          Occurrences(a, operation) = Occurrences(b, operation)

\* equal but for the order of the DisconnectConnection operations among
\* the positions that hold one
SameUpToDisconnectOrder(a, b) ==
    /\ SameOperations(a, b)
    /\ \A i \in 1..Len(a) : ~IsDisconnect(a[i]) \/ ~IsDisconnect(b[i]) => a[i] = b[i]

AllocationScansTerminate ==
    /\ handler = "server" =>
          /\ CanAllocate(DOMAIN active_clients)
          /\ CanAllocate(DOMAIN active_channels)
          /\ CanAllocate(DOMAIN active_tcp_connections)
    /\ handler = "client" => CanAllocate(DOMAIN outstanding_requests)

\* ---- the channel set of a client ----

\* C36: for each live client, the client's channel set equals the set of ids
\* of the live channels whose owner is that client: it never contains the id
\* of a destroyed channel or of a channel that someone else owns.
ClientChannelsAreOwnedChannels ==
    handler = "server" =>
       \A id \in Clients : active_clients[id].channels = OwnedChannels(id)

\* ---- frame of remove_client ----

\* the live channels that the client does not own
ForeignChannels(id) == {ch \in Channels : active_channels[ch].owner # id}

\* the operation stops the port or disconnects a connection of one of the
\* channels
Concerns(operation, channels) ==
    \E ch \in channels :
       \/ operation = StopOperation(active_channels[ch])
       \/ \E c \in ConnectionsOf(ch) : operation = DisconnectConnection(c)

\* C37: remove_client(id) affects only what id owns: the channels of other
\* clients, their port entries, bound flags and connections are unchanged,
\* and the returned list holds no Stop and no DisconnectConnection for them,
\* also after Unregister and a wraparound of the channel ids.
RemoveClientLeavesOthersAlone ==
    /\ [](handler = "server" =>
            \A id \in Clients : \A r \in remove_dsrp_client_may_return(id) :
               \A i \in DOMAIN r.ops : ~ Concerns(r.ops[i], ForeignChannels(id)))
    /\ [][<<server_state, client_state>>' # <<server_state, client_state>> =>
          \A id \in Clients :
             remove_dsrp_client(id) =>
                /\ \A other \in Clients \ {id} :
                      /\ other \in Clients'
                      /\ active_clients'[other] = active_clients[other]
                /\ \A ch \in ForeignChannels(id) :
                      /\ ch \in Channels'
                      /\ active_channels'[ch] = active_channels[ch]
                      /\ active_channels[ch].port \in DOMAIN active_ports'
                      /\ active_ports'[active_channels[ch].port] = ch
                      /\ \A c \in ConnectionsOf(ch) \cap Connections :
                            /\ c \in Connections'
                            /\ active_tcp_connections'[c] = active_tcp_connections[c]]_vars

\* ---- closing a TCP connection ----

\* the positions of the list that hold a close notification for the
\* connection: a DisconnectConnection for the embedder or a
\* TcpConnectionClosed for the client
CloseNotifications(ops, connection) ==
    {i \in DOMAIN ops :
        \/ ops[i] = DisconnectConnection(connection)
        \/ /\ ops[i].type = "SendMessageToDsrpClient"
           /\ ops[i].message.type = "TcpConnectionClosed"
           /\ ops[i].message.connection = connection}

\* what the calls that name the connection return: the embedder's close
\* and data events and the client's TcpConnectionDisconnected
ConnectionEventResults(connection) ==
    {tcp_connection_disconnected_returns(connection), tcp_data_received_returns(connection)}
    \cup {HandleTcpConnectionDisconnected_returns(id, ch, connection) : id \in Clients, ch \in Ids}

\* what the calls that tear channels down return
TeardownResults ==
    UNION {remove_dsrp_client_may_return(id) : id \in Clients}
    \cup UNION {HandleUnregister_may_return(id, ch) : id \in Clients, ch \in Ids}

\* the step handles a call that returns a close notification for the
\* connection
ClosingStep(connection) ==
    \/ tcp_connection_disconnected(connection)
    \/ \E id \in Clients, ch \in Channels :
          /\ CloseNotifications(HandleTcpConnectionDisconnected_returns(id, ch, connection).ops,
                                connection) # {}
          /\ HandleTcpConnectionDisconnected(id, ch, connection)
    \/ \E id \in Clients, ch \in Channels :
          /\ \E r \in HandleUnregister_may_return(id, ch) :
                CloseNotifications(r.ops, connection) # {}
          /\ HandleUnregister(id, ch)
    \/ \E id \in Clients :
          /\ \E r \in remove_dsrp_client_may_return(id) :
                CloseNotifications(r.ops, connection) # {}
          /\ remove_dsrp_client(id)

\* C38: in each lifetime of a server TCP connection K, of
\* tcp_connection_disconnected(K), TcpConnectionDisconnected{C, K} from the
\* owner, Unregister{C} and remove_client(owner) only the first to be
\* handled closes K: a call returns at most one close notification for K
\* (a TcpConnectionClosed{C, K} or a DisconnectConnection{K}), the call that
\* returns it ends the lifetime of K, and once K is closed every close or
\* data event for K produces no operation and no teardown names K.
ConnectionIsClosedOnce ==
    handler = "server" =>
       \A K \in Ids :
          /\ \A r \in ConnectionEventResults(K) \cup TeardownResults :
                /\ Cardinality(CloseNotifications(r.ops, K)) <= 1
                /\ \A i \in CloseNotifications(r.ops, K) :
                      /\ K \in Connections
                      /\ r.ops[i].type = "SendMessageToDsrpClient" =>
                            r.ops[i].message.channel
                               = active_tcp_connections[K].owning_channel
          /\ K \notin Connections =>
                \A r \in ConnectionEventResults(K) : r.ops = <<>>
          /\ K \in Connections =>
                ~ ENABLED (ClosingStep(K) /\ K \in DOMAIN active_tcp_connections')

\* a connection is live on a bound channel of a live client, so that each
\* of the four calls would close it
ConnectionCanBeClosedFourWays ==
    /\ handler = "server"
    /\ \E K \in Connections :
          LET C == active_tcp_connections[K].owning_channel
          IN  /\ C \in Channels
              /\ active_channels[C].owner \in Clients
              /\ K \in ConnectionsOf(C)
              /\ CloseNotifications(tcp_connection_disconnected_returns(K).ops, K) # {}
              /\ CloseNotifications(
                    HandleTcpConnectionDisconnected_returns(active_channels[C].owner, C, K).ops,
                    K) # {}
              /\ \A r \in HandleUnregister_may_return(active_channels[C].owner, C) :
                    CloseNotifications(r.ops, K) # {}
              /\ \A r \in remove_dsrp_client_may_return(active_channels[C].owner) :
                    CloseNotifications(r.ops, K) # {}

\* ---- pairing of Start and Stop operations ----

IsStart(operation) == operation.type \in {"StartTcpOperations", "StartUdpOperations"}

IsStop(operation) == operation.type \in {"StopTcpOperations", "StopUdpOperations"}

\* the transport that a Start or Stop operation is for
TransportOf(operation) ==
    IF operation.type \in {"StartTcpOperations", "StopTcpOperations"} THEN "Tcp" ELSE "Udp"

\* the live channels that hold the port
Holders(port) == {ch \in Channels : active_channels[ch].port = port}

\* the list stops the port
Stops(ops, port) == \E i \in DOMAIN ops : IsStop(ops[i]) /\ ops[i].port = port

\* what the calls other than Register, Unregister and remove_client return
OtherResults ==
    {tcp_connection_disconnected_returns(c) : c \in Ids}
    \cup {tcp_data_received_returns(c) : c \in Ids}
    \cup {udp_data_received_returns(ch) : ch \in Ids}
    \cup {socket_binding_successful_returns(ch) : ch \in Ids}
    \cup {socket_binding_failed_returns(ch) : ch \in Ids}
    \cup {HandleTcpConnectionDisconnected_returns(id, ch, c) : id \in Ids, ch \in Ids, c \in Ids}
    \cup {new_channel_tcp_connection_returns(ch) :
             ch \in {ch \in Ids : \/ NewConnectionError(ch) # NoError
                                  \/ new_channel_tcp_connection_allocates(ch)}}

\* what Unregister and remove_client return
StoppingResults ==
    UNION {remove_dsrp_client_may_return(id) : id \in Ids}
    \cup UNION {HandleUnregister_may_return(id, ch) : id \in Ids, ch \in Ids}

\* Register returns without looping for ever
RegisterReturns(client_id, port) ==
    \/ client_id \notin Clients
    \/ PortIsRegistered(port)
    \/ HandleRegister_allocates(client_id, port)

\* the step handles an Unregister or a remove_client that returns a Stop
\* for the port
StoppingStep(port) ==
    \/ \E id \in Clients, ch \in Channels :
          /\ \E r \in HandleUnregister_may_return(id, ch) : Stops(r.ops, port)
          /\ HandleUnregister(id, ch)
    \/ \E id \in Clients :
          /\ \E r \in remove_dsrp_client_may_return(id) : Stops(r.ops, port)
          /\ remove_dsrp_client(id)

\* C39: Start and Stop operations are paired per port: a Start for a port
\* is emitted only when no live channel holds the port; a Stop for a port is
\* emitted only when a live channel holding that port is destroyed, and has
\* the transport of the Start that opened the channel; two Starts for a port
\* are separated by a Stop or a binding failure for it; no Stop is emitted
\* for a port that no live channel holds.
StartAndStopArePaired ==
    /\ [](handler = "server" =>
            /\ \A client_id \in Ids, request \in RequestIds,
                  connection_type \in ConnectionType, port \in Ports :
                  RegisterReturns(client_id, port) =>
                     LET ops == HandleRegister_returns(client_id, request,
                                                       connection_type, port).ops
                     IN  \A i \in DOMAIN ops :
                            /\ ~ IsStop(ops[i])
                            /\ IsStart(ops[i]) =>
                                  /\ ops[i].port = port
                                  /\ TransportOf(ops[i]) = connection_type
                                  /\ Holders(port) = {}
                                  /\ \A j \in DOMAIN ops : IsStart(ops[j]) => j = i
            /\ \A r \in StoppingResults : \A i \in DOMAIN r.ops :
                  /\ ~ IsStart(r.ops[i])
                  /\ IsStop(r.ops[i]) =>
                        /\ Cardinality(Holders(r.ops[i].port)) = 1
                        /\ \A ch \in Holders(r.ops[i].port) :
                              TransportOf(r.ops[i]) = active_channels[ch].connection_type
                        /\ \A j \in DOMAIN r.ops : r.ops[j] = r.ops[i] => j = i
            /\ \A r \in OtherResults : \A i \in DOMAIN r.ops :
                  ~ IsStart(r.ops[i]) /\ ~ IsStop(r.ops[i])
            /\ \A port \in Ports :
                  ~ ENABLED (StoppingStep(port)
                             /\ \E ch \in DOMAIN active_channels' :
                                   active_channels'[ch].port = port))
    /\ [][<<server_state, client_state>>' # <<server_state, client_state>> =>
          /\ \A ch \in Channels :
                ch \in Channels' =>
                   /\ active_channels'[ch].port = active_channels[ch].port
                   /\ active_channels'[ch].connection_type = active_channels[ch].connection_type
          /\ \A port \in Ports :
                /\ (Holders(port) = {} /\ Holders(port)' # {}) =>
                      \E client_id \in Clients, request \in RequestIds,
                         connection_type \in ConnectionType :
                         /\ HandleRegister(client_id, request, connection_type, port)
                         /\ IsStart(HandleRegister_returns(client_id, request,
                                                           connection_type, port).ops[1])
                         /\ \A ch \in Holders(port)' :
                               active_channels'[ch].connection_type = connection_type
                /\ (Holders(port) # {} /\ Holders(port)' = {}) =>
                      \/ \E id \in Clients, ch \in Channels :
                            /\ HandleUnregister(id, ch)
                            /\ \A r \in HandleUnregister_may_return(id, ch) : Stops(r.ops, port)
                      \/ \E id \in Clients :
                            /\ remove_dsrp_client(id)
                            /\ \A r \in remove_dsrp_client_may_return(id) : Stops(r.ops, port)
                      \/ \E ch \in Holders(port) : socket_binding_failed(ch)
                /\ (Holders(port) # {} /\ Holders(port)' # {}) =>
                      Holders(port)' = Holders(port)]_vars

\* both ports are held, one by a Tcp and one by a Udp channel of live
\* clients: Register returns no Start for either, and Unregister from the
\* owner stops each with the Stop of its transport
BothPortsOpenWithDifferentTransports ==
    /\ handler = "server"
    /\ \A port \in Ports : Holders(port) # {}
    /\ \A connection_type \in ConnectionType :
          \E ch \in Channels :
             /\ active_channels[ch].connection_type = connection_type
             /\ active_channels[ch].owner \in Clients
             /\ \A r \in HandleUnregister_may_return(active_channels[ch].owner, ch) :
                   /\ Stops(r.ops, active_channels[ch].port)
                   /\ TransportOf(r.ops[Len(r.ops)]) = connection_type
             /\ \A id \in Clients, request \in RequestIds, other \in ConnectionType :
                   \A i \in DOMAIN HandleRegister_returns(id, request, other,
                                                         active_channels[ch].port).ops :
                      ~ IsStart(HandleRegister_returns(id, request, other,
                                                       active_channels[ch].port).ops[i])

====
